---- MODULE Spec2Model ----
(***************************************************************************)
(* Brown noise generator (src/main.py): the BrownNoiseGenerator object,    *)
(* its Tk handlers running on the UI thread, and audio_callback running on *)
(* the audio thread of the output stream.                                  *)
(*                                                                         *)
(* Numbers.  The program computes in floating point; the model computes in *)
(* scaled integers.  A coefficient c is held as the integer c * LeakDen,   *)
(* which is exact for every integer bass value.  A sample s is held as the *)
(* integer s * Unit, and a product coefficient * sample is rounded to the  *)
(* nearest sample unit, where the program rounds to the nearest float.     *)
(* The volume v is held as the integer v * VolDen.                         *)
(*                                                                         *)
(* Threads.  The handlers of the UI thread run one after the other (Tk's   *)
(* event loop); audio_callback interleaves with them between attribute     *)
(* loads and stores.  A handler is cut into steps only where the other     *)
(* thread can see the difference.                                          *)
(*                                                                         *)
(* Library.  sd.OutputStream(...) and stream.start() may raise.            *)
(* stream.stop() and stream.close() are called with their default          *)
(* ignore_errors=True: they never raise, do nothing on a stream that is    *)
(* already closed, and stop() returns only when no callback is running.    *)
(***************************************************************************)
EXTENDS Integers, Sequences, FiniteSets, TLC

\* ---------------------------------------------------------------- bounds
MaxFrames == 2
MaxCallbacks == 2
MaxOrphans == 2
MaxBass == 220
Unit == 20

\* ------------------------------------------------------ program constants
BassLo == 20
BassHi == 200
LeakLoMilli == 950
LeakHiMilli == 999
VolDen == 100
DefaultBass == 100
DefaultVolume == 50

\* Coefficients are integers over LeakDen: 0.95 is 171000, 0.999 is 179820.
LeakDen == (BassHi - BassLo) * 1000

\* ------------------------------------------------------------ input sets
WhiteValues == {-Unit, Unit}
VolumeValues == {0, 50}
PresetValues == {20, 100, 200}
SliderBass == {20}
RandomBass == {200}
BassDomain == 0..MaxBass
StartOutcomes == {"ok", "open_fails", "start_fails"}

Blocks == UNION {[1..n -> WhiteValues] : n \in 1..MaxFrames}

\* -------------------------------------------------------- pure functions

\* n / d rounded to the nearest integer (d > 0), halves upwards.
RoundDiv(n, d) == (2 * n + d) \div (2 * d)

\* np.interp(x, [20, 200], [0.95, 0.999]) * LeakDen: the end values outside
\* the anchors, slope * (x - xp[0]) + fp[0] between them.
InterpNoClamp(x) ==
    LeakLoMilli * (BassHi - BassLo) + (x - BassLo) * (LeakHiMilli - LeakLoMilli)

Interp(x) ==
    IF x <= BassLo THEN LeakLoMilli * (BassHi - BassLo)
    ELSE IF x >= BassHi THEN LeakHiMilli * (BassHi - BassLo)
    ELSE LeakLoMilli * (BassHi - BassLo)
         + (x - BassLo) * (LeakHiMilli - LeakLoMilli)

\* np.array([1 - leak]) and np.array([1, -leak]).
BCoef(l) == <<LeakDen - l>>
ACoef(l) == <<LeakDen, -l>>

\* One sample of scipy.signal.lfilter for a first order filter (direct form
\* II transposed, b padded with a zero): y = z + b0*x, z' = 0*x - a1*y.
FilterY(b, x, z) == z + RoundDiv(b[1] * x, LeakDen)
FilterZ(a, y) == RoundDiv((0 - a[2]) * y, LeakDen)

\* signal.lfilter(b, a, x, zi=zi): <<the filtered samples, the final state>>.
RECURSIVE LFilterFrom(_, _, _, _, _, _)
LFilterFrom(b, a, x, z, i, acc) ==
    IF i > Len(x) THEN <<acc, <<z>> >>
    ELSE LET y == FilterY(b, x[i], z)
         IN  LFilterFrom(b, a, x, FilterZ(a, y), i + 1, Append(acc, y))

LFilter(b, a, x, zi) == LFilterFrom(b, a, x, zi[1], 1, <<>>)

\* brown * self.volume
Scale(brown, vol) == [i \in 1..Len(brown) |-> RoundDiv(brown[i] * vol, VolDen)]

AllZero(s) == \A i \in 1..Len(s) : s[i] = 0

\* ------------------------------------------------------------------ state
VARIABLES
    is_playing,   \* self.is_playing
    volume,       \* self.volume * VolDen
    zi,           \* self.zi, the filter state carried between blocks
    bass_level,   \* self.bass_level
    leak,         \* self.leak * LeakDen
    b_coef,       \* self.b_coef * LeakDen
    a_coef,       \* self.a_coef * LeakDen
    stream,       \* self.stream: "none" (no attribute), "open", "active", "closed"
    orphans,      \* streams still open that self.stream no longer names
    window,       \* self.root: "open" or "destroyed"
    ui,           \* the UI thread: the handler running or last run
    cb,           \* the audio thread: audio_callback's position and locals
    ncb,          \* callback invocations begun
    carried,      \* self.zi as the last stop left it, until a callback reads it
    plan          \* SpecBlocks: the blocks the audio subsystem asks for

vars == <<is_playing, volume, zi, bass_level, leak, b_coef, a_coef, stream,
          orphans, window, ui, cb, ncb, carried, plan>>

params == <<volume, bass_level, leak, b_coef, a_coef>>
session == <<is_playing, stream, orphans, window>>
audio == <<zi, cb, ncb>>

\* ui.pc: "idle" between handlers, "store_b" and "store_a" before lines 123
\* and 124, "stopping" inside stream.stop().  ui.err is the exception the
\* last handler raised, ui.closing whether on_close runs or has run, ui.lib
\* the stream calls on_close made.
UiIdle == [pc |-> "idle", err |-> "none", closing |-> FALSE, lib |-> <<>>]

\* cb.pc: "idle", then "b" (lines 138-142 done and self.b_coef loaded for the
\* call of line 145), "filtered" (line 145 done), "written" (line 148 done).
\* cb.outdata is the buffer of the invocation.  cb.vol0 and cb.zi0 remember
\* self.volume at the invocation's begin and self.zi as line 145 read it.
CbIdle ==
    [pc |-> "idle", status |-> FALSE, printed |-> FALSE, white |-> <<>>,
     b |-> <<>>, a |-> <<>>, brown |-> <<>>, outdata |-> <<>>,
     vol0 |-> 0, zi0 |-> <<0>>]

NoPlan == [whole |-> <<>>, m |-> 0, k |-> 0, zi0 |-> <<0>>, out |-> <<>>]

\* __init__, lines 16-29.
Init ==
    /\ is_playing = FALSE
    /\ volume = DefaultVolume
    /\ zi = <<0>>
    /\ bass_level = DefaultBass
    /\ leak = Interp(DefaultBass)
    /\ b_coef = BCoef(Interp(DefaultBass))
    /\ a_coef = ACoef(Interp(DefaultBass))
    /\ stream = "none"
    /\ orphans = 0
    /\ window = "open"
    /\ ui = UiIdle
    /\ cb = CbIdle
    /\ ncb = 0
    /\ carried = "none"
    /\ plan = NoPlan

\* ------------------------------------------------------------- UI thread
UiReady == ui.pc = "idle" /\ window = "open"

\* update_volume, lines 101-102.
update_volume(value) ==
    /\ UiReady
    /\ volume' = value
    /\ ui' = UiIdle
    /\ UNCHANGED <<bass_level, leak, b_coef, a_coef, session, audio, carried, plan>>

\* What update_bass does to self.zi: nothing (line 109 is commented out).
ZiReset(z) == <<0>>

ZiAfterBass(z) == z

\* update_bass up to line 121 of update_leak_from_bass: bass_level and leak.
update_bass(value) ==
    /\ UiReady
    /\ bass_level' = value
    /\ leak' = Interp(value)
    /\ zi' = ZiAfterBass(zi)
    /\ ui' = [UiIdle EXCEPT !.pc = "store_b"]
    /\ UNCHANGED <<volume, b_coef, a_coef, session, cb, ncb, carried, plan>>

\* set_preset, lines 126-129; random_preset, lines 131-135.
set_preset(value) == update_bass(value)
random_preset(value) == update_bass(value)

\* update_leak_from_bass, line 123.
StoreB ==
    /\ ui.pc = "store_b"
    /\ b_coef' = BCoef(leak)
    /\ ui' = [ui EXCEPT !.pc = "store_a"]
    /\ UNCHANGED <<volume, bass_level, leak, a_coef, session, audio, carried, plan>>

\* update_leak_from_bass, line 124, and the handler's return.
StoreA ==
    /\ ui.pc = "store_a"
    /\ a_coef' = ACoef(leak)
    /\ ui' = [ui EXCEPT !.pc = "idle"]
    /\ UNCHANGED <<volume, bass_level, leak, b_coef, session, audio, carried, plan>>

IsOpen(s) == s \in {"open", "active"}

\* The streams created by line 155 and not yet closed.
OpenStreams == orphans + (IF IsOpen(stream) THEN 1 ELSE 0)

\* The start branch of toggle_playback, lines 152-163, by what the stream
\* calls do: "open_fails" (line 155 raises), "start_fails" (line 163 raises),
\* "ok".  is_playing is set before either call; line 155 assigns self.stream
\* only when the constructor returns.
StartEffectFlagLast(outcome) ==
    [playing |-> outcome = "ok",
     stream |-> CASE outcome = "open_fails" -> stream
                  [] outcome = "start_fails" -> "open"
                  [] OTHER -> "active",
     orphans |-> IF outcome # "open_fails" /\ IsOpen(stream)
                 THEN orphans + 1 ELSE orphans,
     err |-> CASE outcome = "open_fails" -> "open"
               [] outcome = "start_fails" -> "start"
               [] OTHER -> "none"]

StartEffect(outcome) ==
    [playing |-> TRUE,
     stream |-> CASE outcome = "open_fails" -> stream
                  [] outcome = "start_fails" -> "open"
                  [] OTHER -> "active",
     orphans |-> IF outcome # "open_fails" /\ IsOpen(stream)
                 THEN orphans + 1 ELSE orphans,
     err |-> CASE outcome = "open_fails" -> "open"
               [] outcome = "start_fails" -> "start"
               [] OTHER -> "none"]

ToggleStart(outcome) ==
    /\ UiReady
    /\ ~is_playing
    /\ orphans < MaxOrphans
    /\ LET e == StartEffect(outcome)
       IN  /\ is_playing' = e.playing
           /\ stream' = e.stream
           /\ orphans' = e.orphans
           /\ ui' = [UiIdle EXCEPT !.err = e.err]
    /\ UNCHANGED <<params, window, audio, carried, plan>>

\* The stop branch up to the call of stream.stop(), lines 165-169; without a
\* stream attribute the handler is over (and on_close destroys the window).
StopBegin(closing) ==
    /\ is_playing' = FALSE
    /\ ui' = [UiIdle EXCEPT !.pc = IF stream = "none" THEN "idle" ELSE "stopping",
                            !.closing = closing]
    /\ window' = IF stream = "none" /\ closing THEN "destroyed" ELSE window
    /\ UNCHANGED <<params, stream, orphans, audio, carried, plan>>

ToggleStop ==
    /\ UiReady
    /\ is_playing
    /\ StopBegin(FALSE)

\* stream.stop() returns once no callback of an active stream is running.
StopReturnsAtOnce == TRUE

StopReturns == stream = "active" => cb.pc = "idle"

\* self.stream after stop() and close(): closed, also when it was not
\* started; the calls fail on a closed stream and the error is ignored.
StreamAfterStop(s) == "closed"

\* Lines 169-170, and for on_close line 175.
StopFinish ==
    /\ ui.pc = "stopping"
    /\ StopReturns
    /\ stream' = StreamAfterStop(stream)
    /\ ui' = [ui EXCEPT !.pc = "idle",
                        !.lib = IF ui.closing THEN <<"stop", "close">> ELSE <<>>]
    /\ window' = IF ui.closing THEN "destroyed" ELSE window
    /\ carried' = zi
    /\ UNCHANGED <<is_playing, params, orphans, audio, plan>>

\* on_close, lines 172-175.
CloseNeverStops == FALSE

CloseMustStop == is_playing

OnClose ==
    /\ UiReady
    /\ IF CloseMustStop
       THEN StopBegin(TRUE)
       ELSE /\ window' = "destroyed"
            /\ ui' = [UiIdle EXCEPT !.closing = TRUE]
            /\ UNCHANGED <<is_playing, params, stream, orphans, audio, carried, plan>>

\* ---------------------------------------------------------- audio thread

\* The audio subsystem calls back while a stream is active.
StreamRunning == stream = "active" \/ orphans > 0

\* Where the callback is after lines 138-139: a reported status is printed
\* and the callback goes on.
AfterStatusReturn(status) == IF status THEN "idle" ELSE "b"

AfterStatus(status) == "b"

\* audio_callback, lines 138-142 and the argument self.b_coef of line 145.
Begin(white, status) ==
    /\ cb.pc = "idle"
    /\ StreamRunning
    /\ ncb < MaxCallbacks
    /\ ncb' = ncb + 1
    /\ cb' = [CbIdle EXCEPT !.pc = AfterStatus(status),
                            !.status = status, !.printed = status,
                            !.white = white, !.b = b_coef, !.vol0 = volume]
    /\ UNCHANGED <<params, session, zi, ui, carried>>

CbBegin(white, status) == Begin(white, status) /\ UNCHANGED plan

\* Line 145: brown, self.zi = signal.lfilter(b, self.a_coef, white, zi=self.zi).
CbFilterDropsState ==
    /\ cb.pc = "b"
    /\ LET r == LFilter(cb.b, a_coef, cb.white, zi)
       IN  /\ cb' = [cb EXCEPT !.pc = "filtered", !.a = a_coef,
                               !.brown = r[1], !.zi0 = zi]
           /\ zi' = zi
    /\ carried' = "none"
    /\ UNCHANGED <<params, session, ncb, ui, plan>>

CbFilter ==
    /\ cb.pc = "b"
    /\ LET r == LFilter(cb.b, a_coef, cb.white, zi)
       IN  /\ cb' = [cb EXCEPT !.pc = "filtered", !.a = a_coef,
                               !.brown = r[1], !.zi0 = zi]
           /\ zi' = r[2]
    /\ carried' = "none"
    /\ UNCHANGED <<params, session, ncb, ui, plan>>

\* Line 148: outdata[:] = (brown * self.volume).reshape(-1, 1).
CbWriteUnscaled ==
    /\ cb.pc = "filtered"
    /\ cb' = [cb EXCEPT !.pc = "written", !.outdata = cb.brown]
    /\ UNCHANGED <<params, session, zi, ncb, ui, carried, plan>>

CbWrite ==
    /\ cb.pc = "filtered"
    /\ cb' = [cb EXCEPT !.pc = "written", !.outdata = Scale(cb.brown, volume)]
    /\ UNCHANGED <<params, session, zi, ncb, ui, carried, plan>>

\* The callback returns and the audio subsystem takes the buffer.
Return ==
    /\ cb.pc = "written"
    /\ cb' = CbIdle
    /\ UNCHANGED <<params, session, zi, ncb, ui, carried>>

CbReturn == Return /\ UNCHANGED plan

\* ------------------------------------------------------- specifications
UiNext ==
    \/ \E v \in VolumeValues : update_volume(v)
    \/ \E v \in SliderBass : update_bass(v)
    \/ \E v \in PresetValues : set_preset(v)
    \/ \E v \in RandomBass : random_preset(v)
    \/ StoreB
    \/ StoreA
    \/ \E o \in StartOutcomes : ToggleStart(o)
    \/ ToggleStop
    \/ StopFinish
    \/ OnClose

CbNext ==
    \/ \E w \in Blocks, s \in BOOLEAN : CbBegin(w, s)
    \/ CbFilter
    \/ CbWrite
    \/ CbReturn

Next == UiNext \/ CbNext

Spec == Init /\ [][Next]_vars

\* Block by block: the audio subsystem asks for the first plan.m samples of
\* plan.whole, then for the rest; plan.out collects the filtered samples.
BlockSamples == {-3 * Unit, 0, 3 * Unit}
BlockInputs == UNION {[1..n -> BlockSamples] : n \in 1..MaxFrames}
ZiStarts == {<<-Unit>>, <<0>>, <<Unit>>}

InitBlocks ==
    /\ is_playing = TRUE
    /\ volume = DefaultVolume
    /\ zi \in ZiStarts
    /\ bass_level \in PresetValues
    /\ leak = Interp(bass_level)
    /\ b_coef = BCoef(leak)
    /\ a_coef = ACoef(leak)
    /\ stream = "active"
    /\ orphans = 0
    /\ window = "open"
    /\ ui = UiIdle
    /\ cb = CbIdle
    /\ ncb = 0
    /\ carried = "none"
    /\ \E w1 \in BlockInputs, w2 \in BlockInputs :
           plan = [whole |-> w1 \o w2, m |-> Len(w1), k |-> 0, zi0 |-> zi,
                   out |-> <<>>]

BlockOf(k) ==
    IF k = 1 THEN SubSeq(plan.whole, 1, plan.m)
    ELSE SubSeq(plan.whole, plan.m + 1, Len(plan.whole))

BlockBegin ==
    /\ plan.k < 2
    /\ \E s \in BOOLEAN : Begin(BlockOf(plan.k + 1), s)
    /\ plan' = [plan EXCEPT !.k = @ + 1]

BlockReturn ==
    /\ Return
    /\ plan' = [plan EXCEPT !.out = @ \o cb.brown]

NextBlocks == BlockBegin \/ CbFilter \/ CbWrite \/ BlockReturn

SpecBlocks == InitBlocks /\ [][NextBlocks]_vars

\* The bass handlers alone, over every integer bass value up to MaxBass.
NextLeak ==
    \/ \E v \in BassDomain : update_bass(v)
    \/ StoreB
    \/ StoreA

SpecLeak == Init /\ [][NextLeak]_vars

\* ----------------------------------------------------------------- claims

\* C1: when opening or starting the stream fails in toggle_playback, the
\* controller is stopped afterwards: is_playing is False, so that the next
\* toggle_playback starts again.
FailedStartLeavesStopped == ui.err # "none" => ~is_playing

\* C2: the coefficient pair a callback filters with comes from one
\* update_leak_from_bass call: b_coef = 1 - L and a_coef = [1, -L] for one L.
CallbackCoefficientsFromOneUpdate ==
    cb.pc \in {"filtered", "written"} =>
        LET L == 0 - cb.a[2] IN cb.b = BCoef(L) /\ cb.a = ACoef(L)

\* C3: once the stop branch of toggle_playback has returned, and until a
\* later start, no callback is running and none can begin (no stream is
\* active), so zi is neither read nor written by the audio thread.
NoCallbackAfterStop ==
    (~is_playing /\ ui.pc = "idle") => (cb.pc = "idle" /\ ~StreamRunning)

StoppedAfterCallbacks ==
    /\ ~is_playing
    /\ ui.pc = "idle"
    /\ stream = "closed"
    /\ window = "open"
    /\ ncb > 0

\* C4: at most one output stream is open at any time, and no open stream is
\* left that self.stream does not name, whatever starts failed before.
AtMostOneStreamOpen == OpenStreams <= 1 /\ orphans = 0

StartFailedStreamStillNamed ==
    /\ ui.err = "start"
    /\ is_playing
    /\ stream = "open"
    /\ OpenStreams = 1

\* C5: two consecutive callbacks over blocks of lengths m and n, zi carried
\* from the first to the second, give before volume scaling the same m+n
\* samples and the same final zi as one lfilter call over the m+n samples.
BlockwiseEqualsContinuous ==
    (plan.k = 2 /\ cb.pc = "idle") =>
        LET r == LFilter(b_coef, a_coef, plan.whole, plan.zi0)
        IN  plan.out = r[1] /\ zi = r[2]

TwoBlocksFiltered ==
    /\ plan.k = 2
    /\ cb.pc = "idle"
    /\ plan.m = 2
    /\ Len(plan.whole) = 4
    /\ Len(plan.out) = 4
    /\ plan.zi0 # <<0>>
    /\ zi # plan.zi0
    /\ plan.out[2] # plan.out[3]

\* C6: no handler of the UI thread changes zi; only line 145 of
\* audio_callback does.  The value zi has when a stream is stopped is
\* therefore the value the first callback of the next stream reads.
ZiOnlyChangedByCallback ==
    /\ [](carried # "none" => zi = carried)
    /\ [][/\ UiNext => zi' = zi
          /\ zi' # zi => (cb.pc = "b" /\ cb'.pc = "filtered")
          /\ (cb.pc = "b" /\ cb'.pc = "filtered" /\ carried # "none")
                => cb'.zi0 = carried]_vars

RestartedStreamReadsCarriedZi ==
    /\ stream = "active"
    /\ carried # "none"
    /\ carried # <<0>>
    /\ zi = carried
    /\ cb.pc = "b"

\* C7 as stated: a callback that begins after update_volume(v) has returned
\* and before any later update_volume call writes the filtered samples
\* multiplied by v/100.
BlockScaledByVolumeAtBegin ==
    cb.pc = "written" => cb.outdata = Scale(cb.brown, cb.vol0)

\* C7 amended: the block a callback writes is the filtered samples
\* multiplied by the value self.volume holds at the write of line 148, the
\* v of the last update_volume that returned before it; with that value 0
\* the block is all zeros.
BlockScaledByVolumeAtWrite ==
    [][(cb.pc = "filtered" /\ cb'.pc = "written") =>
          /\ cb'.outdata = Scale(cb.brown, volume)
          /\ Len(cb'.outdata) = Len(cb.white)
          /\ volume = 0 => AllZero(cb'.outdata)]_vars

SilentBlockWritten ==
    /\ cb.pc = "written"
    /\ volume = 0
    /\ cb.vol0 = 0
    /\ ~AllZero(cb.brown)
    /\ AllZero(cb.outdata)
    /\ zi # <<0>>

\* C8: after update_leak_from_bass(v) the stored leak is 0.95 +
\* (v-20)/180 * 0.049 for v in [20,200], 0.95 below and 0.999 above; it is
\* non-decreasing in v and within [0.95, 0.999]; feedforward = 1 - leak and
\* feedback = leak.  (All times LeakDen = 180000.)
LeakIsLinearInterpolation ==
    /\ bass_level < 20 => leak = 171000
    /\ bass_level > 200 => leak = 179820
    /\ (bass_level >= 20 /\ bass_level <= 200)
          => leak = 171000 + (bass_level - 20) * 49
    /\ leak >= 171000 /\ leak <= 179820
    /\ Interp(20) = 171000 /\ Interp(200) = 179820
    /\ \A v \in BassDomain : v <= bass_level => Interp(v) <= leak
    /\ \A v \in BassDomain : v >= bass_level => Interp(v) >= leak
    /\ ui.pc = "idle" =>
          /\ b_coef = <<180000 - leak>>
          /\ a_coef = <<180000, 0 - leak>>
          /\ b_coef[1] + (0 - a_coef[2]) = a_coef[1]

MidpointBassStored ==
    /\ ui.pc = "idle"
    /\ bass_level = 110
    /\ leak = 175410
    /\ b_coef = <<4590>>
    /\ a_coef = <<180000, -175410>>

\* C9: a callback invoked with a status prints it and goes on: it filters
\* and writes a full block and updates zi as lfilter says, and no step of
\* the callback changes is_playing or the stream.
StatusIsNotFatal ==
    /\ [](cb.status =>
            /\ cb.printed
            /\ cb.pc # "idle"
            /\ cb.pc \in {"filtered", "written"} =>
                  LET r == LFilter(cb.b, cb.a, cb.white, cb.zi0)
                  IN  /\ cb.brown = r[1]
                      /\ zi = r[2]
                      /\ Len(cb.brown) = Len(cb.white)
            /\ cb.pc = "written" => Len(cb.outdata) = Len(cb.white))
    /\ [][cb' # cb => UNCHANGED <<is_playing, stream, orphans, window>>]_vars

StatusBlockWritten ==
    /\ cb.pc = "written"
    /\ cb.status
    /\ cb.printed
    /\ is_playing
    /\ stream = "active"
    /\ Len(cb.outdata) = MaxFrames
    /\ ~AllZero(cb.outdata)
    /\ zi # cb.zi0

\* C10: on_close ends with the window destroyed and no stream open or
\* running, from every state; entered with is_playing False it calls
\* neither stop nor close; and while it waits in stop() it is not stuck:
\* stop() can return or the running callback can take its next step.
CloseEndsPlayback ==
    /\ [](window = "destroyed" =>
            /\ ui.closing
            /\ ui.pc = "idle"
            /\ ~is_playing
            /\ OpenStreams = 0
            /\ cb.pc = "idle")
    /\ [](ui.pc = "stopping" =>
            \/ ENABLED StopFinish
            \/ ENABLED (CbFilter \/ CbWrite \/ CbReturn))
    /\ [][(UiReady /\ ~is_playing /\ window' = "destroyed") =>
            (ui'.lib = <<>> /\ stream' = stream /\ ui'.pc = "idle")]_vars

ClosedWhilePlaying ==
    /\ window = "destroyed"
    /\ ui.lib = <<"stop", "close">>
    /\ stream = "closed"
    /\ ncb > 0

====
